---- MODULE Spec2Model ----
(***************************************************************************)
(* Model of WebResearchTool (src/WebScanner/research_tool.py): the         *)
(* research() pipeline search -> filter -> per-source analyze ->           *)
(* synthesize, with the external backends (search, HTTP fetch, model       *)
(* completion) as nondeterministic outcomes.                               *)
(*                                                                         *)
(* Python dicts are TLA+ records (functions on key strings), Python str    *)
(* values that the code inspects (URLs, host names) are sequences of       *)
(* one-character strings, and an exception is a record                     *)
(* [raised |-> TRUE, msg |-> str(e)] that propagates until a try/except    *)
(* of the code catches it.                                                 *)
(*                                                                         *)
(* SpecTool models web_search_tool of src/ell-agentic-search.py in the     *)
(* same way.                                                               *)
(***************************************************************************)
EXTENDS Integers, Sequences, FiniteSets, TLC

VARIABLES
    max_urls,          \* self.max_urls, set by __init__
    query,             \* the argument of research
    pc,                \* where research stands: "Searching", "Filtering",
                       \* "Analyzing", "Synthesizing", "Done" (returned) or
                       \* "Raised" (left by an exception)
    search_results,    \* research's search_results
    filtered_urls,     \* research's filtered_urls
    idx,               \* position of the loop over filtered_urls (from 1)
    analyses,          \* research's accumulator of per-source records
    result,            \* the dict research returned
    calls,             \* the calls research made so far, in order, each
                       \* with what it produced
    clock,             \* time, advanced by time.sleep(1)
    extracted,         \* what the last extract_text_from_url returned
    prompt_content,    \* the content put in the last per-source prompt
    synthesis_prompt,  \* the query and analyses put in the synthesis prompt
    resp_original,     \* web_search_tool's resp: the response to the first
                       \* search
    resp_google,       \* web_search_tool: the response to the !google search
    original_urls,     \* web_search_tool's original_urls
    google_urls,       \* web_search_tool's google_urls
    r_page,            \* fetch_content's r: the response to the last page
                       \* fetch
    original_results,  \* web_search_tool's original_results, as built so far
    google_results,    \* web_search_tool's google_results, as built so far
    output             \* what web_search_tool returned

\* the variables of web_search_tool (src/ell-agentic-search.py)
tool_vars == <<resp_original, resp_google, original_urls, google_urls,
               r_page,
               original_results, google_results, output>>

vars == <<max_urls, query, pc, search_results, filtered_urls, idx,
          analyses, result, calls, clock, extracted, prompt_content,
          synthesis_prompt, resp_original, resp_google, original_urls,
          google_urls,
          r_page, original_results, google_results, output>>

(* ---------------------------- bounds ---------------------------------- *)

\* longest item list the search backend returns in the model
MaxResults == 3

\* largest configured max_urls in the model (the spec requires limit >= 1)
MaxUrlsBound == 2

(* --------------------------- Python helpers --------------------------- *)

Min(S) == CHOOSE x \in S : \A y \in S : x <= y

\* str.endswith
EndsWith(s, suffix) ==
    /\ Len(suffix) <= Len(s)
    /\ SubSeq(s, Len(s) - Len(suffix) + 1, Len(s)) = suffix

\* list slicing lst[:n] for n >= 0
Take(lst, n) == SubSeq(lst, 1, Min({n, Len(lst)}))

\* dict.update: the keys of other overwrite those of d
Update(d, other) ==
    [k \in (DOMAIN d) \cup (DOMAIN other) |->
        IF k \in DOMAIN other THEN other[k] ELSE d[k]]

\* an exception travelling up the call stack, and a normal return
Raise(m) == [raised |-> TRUE, msg |-> m]
Return(v) == [raised |-> FALSE, value |-> v]

(* ------------------------------ URLs ---------------------------------- *)

Http == <<"h", "t", "t", "p", ":", "/", "/">>

UrlEdu == Http \o <<"a", ".", "e", "d", "u", "/", "p">>
UrlNature == Http \o <<"n", "a", "t", "u", "r", "e", ".", "c", "o", "m">>
UrlGov == Http \o <<"n", "i", "h", ".", "g", "o", "v", "?", "q">>
UrlBlog == Http \o <<"b", "l", "o", "g", ".", "x", "y", "z", "/", "p">>
UrlPort == Http \o <<"a", ".", "e", "d", "u", ":", "8", "0", "/", "p">>

SchemeChars == {"h", "t", "p", "s"}

\* urlparse(url).netloc: what follows "scheme://" up to the first / ? or #
netloc(url) ==
    LET colons == {i \in 1..Len(url) : url[i] = ":"}
        colon == IF colons = {} THEN 0 ELSE Min(colons)
        hasScheme == /\ colon > 1
                     /\ \A i \in 1..(colon - 1) : url[i] \in SchemeChars
        rest == IF hasScheme THEN SubSeq(url, colon + 1, Len(url)) ELSE url
        stops == {i \in 3..Len(rest) : rest[i] \in {"/", "?", "#"}}
        stop == IF stops = {} THEN Len(rest) + 1 ELSE Min(stops)
    IN  IF Len(rest) >= 2 /\ rest[1] = "/" /\ rest[2] = "/"
        THEN SubSeq(rest, 3, stop - 1)
        ELSE <<>>

(* ------------------------- search backend ----------------------------- *)

\* items of a Custom Search response; the last one lacks the snippet key
Items ==
    { [link |-> UrlEdu, title |-> "t_edu", snippet |-> "s_edu"],
      [link |-> UrlNature, title |-> "t_nature", snippet |-> "s_nature"],
      [link |-> UrlGov, title |-> "t_gov", snippet |-> "s_gov"],
      [link |-> UrlBlog, title |-> "t_blog", snippet |-> "s_blog"],
      [link |-> UrlPort, title |-> "t_port", snippet |-> "s_port"],
      [link |-> UrlBlog, title |-> "t_bad"] }

\* the backend's ranked lists: up to MaxResults items, none listed twice
ItemLists ==
    {items \in UNION {[1..n -> Items] : n \in 0..MaxResults} :
        \A i, j \in 1..Len(items) : i # j => items[i] # items[j]}

\* outcomes of build(...).cse().list(...).execute()
SearchOutcomes ==
    {Raise("HttpError")} \cup {Return(items) : items \in ItemLists}

Queries == {"q1"}

(* --------------------------- search_urls ------------------------------ *)

\* the body of the try block of search_urls
search_urls_try(outcome) ==
    IF outcome.raised THEN outcome
    ELSE LET items == outcome.value
         IN  IF \E i \in 1..Len(items) :
                    ~({"link", "title", "snippet"} \subseteq DOMAIN items[i])
             THEN Raise("KeyError")
             ELSE Return([i \in 1..Len(items) |->
                             [url |-> items[i].link,
                              title |-> items[i].title,
                              snippet |-> items[i].snippet,
                              source |-> netloc(items[i].link)]])

\* search_urls without its except clause
search_urls_uncaught(outcome) == search_urls_try(outcome)

\* search_urls: any exception of the body is logged and becomes []
search_urls(outcome) ==
    LET r == search_urls_try(outcome)
    IN  IF r.raised THEN Return(<<>>) ELSE r

(* --------------------------- filter_urls ------------------------------ *)

trusted_domains ==
    << <<"n", "a", "t", "u", "r", "e", ".", "c", "o", "m">>,
       <<"s", "c", "i", "e", "n", "c", "e", ".", "o", "r", "g">>,
       <<"s", "c", "i", "e", "n", "t", "i", "f", "i", "c", "a", "m", "e",
         "r", "i", "c", "a", "n", ".", "c", "o", "m">>,
       <<"i", "e", "e", "e", ".", "o", "r", "g">>,
       <<"a", "c", "m", ".", "o", "r", "g">>,
       <<"a", "r", "x", "i", "v", ".", "o", "r", "g">>,
       <<"g", "o", "v">>,
       <<"e", "d", "u">>,
       <<"g", "i", "t", "h", "u", "b", ".", "c", "o", "m">>,
       <<"s", "t", "a", "c", "k", "o", "v", "e", "r", "f", "l", "o", "w",
         ".", "c", "o", "m">>,
       <<"m", "e", "d", "i", "u", "m", ".", "c", "o", "m">> >>

\* s occurs somewhere in domain
Contains(domain, s) ==
    \E k \in 0..(Len(domain) - Len(s)) :
        SubSeq(domain, k + 1, k + Len(s)) = s

\* "trusted in domain" in place of domain.endswith(trusted)
is_trusted_substring(domain) ==
    \E t \in 1..Len(trusted_domains) : Contains(domain, trusted_domains[t])

is_trusted(domain) ==
    \E t \in 1..Len(trusted_domains) : EndsWith(domain, trusted_domains[t])

TrustedUrlData(url_data) == is_trusted(netloc(url_data.url))

\* the loop of filter_urls: the trusted entries, in input order
trusted_only(urls) == SelectSeq(urls, TrustedUrlData)

\* filter_urls without the final slice
filter_urls_untruncated(urls) == trusted_only(urls)

\* filter_urls slicing the input before the loop
filter_urls_truncate_first(urls) == trusted_only(Take(urls, max_urls))

\* filter_urls falling back to the unfiltered results when none is trusted
filter_urls_fallback(urls) ==
    IF Len(trusted_only(urls)) = 0 THEN Take(urls, max_urls)
    ELSE Take(trusted_only(urls), max_urls)

filter_urls(urls) == Take(trusted_only(urls), max_urls)

(* ----------------------- extract_text_from_url ------------------------ *)

\* A text is known by its length; None is Python's None.
None == [none |-> TRUE, len |-> 0]
Str(n) == [none |-> FALSE, len |-> n]

max_content_length == 12000

TextLengths == {0, max_content_length, max_content_length + 1}

\* outcomes of requests.get + raise_for_status + the BeautifulSoup pass
FetchOutcomes ==
    {Raise("RequestException")} \cup {Return(Str(n)) : n \in TextLengths}

extract_text_from_url(outcome) ==
    IF outcome.raised THEN None ELSE outcome.value

(* -------------------------- analyze_webpage --------------------------- *)

AnalysisFields == {"summary", "key_findings", "credibility", "date"}

FullAnalysis ==
    [summary |-> "m_summary", key_findings |-> "m_findings",
     credibility |-> "m_credibility", date |-> "m_date"]

\* JSON objects the model may answer with: the four fields, one field,
\* and the four fields with an error and a url of the model's own
ModelDicts ==
    { FullAnalysis,
      [summary |-> "m_summary"],
      Update(FullAnalysis, [error |-> "m_error", url |-> UrlBlog]) }

\* outcomes of client.messages.create followed by json.loads:
\* the call raises, the text is not JSON, the JSON is not an object
\* (a list, a string, a number), or it is an object
ModelOutcomes ==
    { [kind |-> "api_error", value |-> FullAnalysis],
      [kind |-> "bad_json", value |-> FullAnalysis],
      [kind |-> "non_dict", value |-> FullAnalysis] }
    \cup { [kind |-> "dict", value |-> d] : d \in ModelDicts }

\* The content of a prompt is a piece of the extracted text: the kept
\* characters starting at position from (counted from 1), followed by the
\* marker "..." or not.

\* truncation testing len(content) >= max_content_length
truncate_at_limit(content) ==
    IF content.len >= max_content_length
    THEN [from |-> 1, kept |-> max_content_length, marker |-> TRUE]
    ELSE [from |-> 1, kept |-> content.len, marker |-> FALSE]

\* content[:max_content_length] + "..." when too long
truncate(content) ==
    IF content.len > max_content_length
    THEN [from |-> 1, kept |-> max_content_length, marker |-> TRUE]
    ELSE [from |-> 1, kept |-> content.len, marker |-> FALSE]

NoPrompt == [from |-> 1, kept |-> 0, marker |-> FALSE]

\* the try block of analyze_webpage without analysis.update(url_data)
analyze_try_unmerged(url_data, resp) ==
    CASE resp.kind = "api_error" -> Raise("APIError")
      [] resp.kind = "bad_json" -> Raise("JSONDecodeError")
      [] resp.kind = "non_dict" -> Raise("AttributeError")
      [] OTHER -> Return(resp.value)

\* the try block of analyze_webpage merging the other way round:
\* the keys of the answer overwrite the candidate's
analyze_try_answer_wins(url_data, resp) ==
    CASE resp.kind = "api_error" -> Raise("APIError")
      [] resp.kind = "bad_json" -> Raise("JSONDecodeError")
      [] resp.kind = "non_dict" -> Raise("AttributeError")
      [] OTHER -> Return(Update(url_data, resp.value))

\* the body of the try block of analyze_webpage
analyze_try(url_data, resp) ==
    CASE resp.kind = "api_error" -> Raise("APIError")
      [] resp.kind = "bad_json" -> Raise("JSONDecodeError")
      [] resp.kind = "non_dict" -> Raise("AttributeError")
      [] OTHER -> Return(Update(resp.value, url_data))

\* analyze_webpage testing "content is None" in place of "not content"
analyze_webpage_none_check(url_data, fetch, resp) ==
    LET content == extract_text_from_url(fetch)
        r == analyze_try(url_data, resp)
    IN  IF content.none
        THEN [raised |-> FALSE,
              value |-> [url |-> url_data.url,
                         error |-> "Failed to extract content"],
              model_called |-> FALSE, prompt |-> NoPrompt]
        ELSE IF r.raised
        THEN [raised |-> FALSE,
              value |-> [url |-> url_data.url, error |-> r.msg],
              model_called |-> TRUE, prompt |-> truncate(content)]
        ELSE [raised |-> FALSE, value |-> r.value,
              model_called |-> TRUE, prompt |-> truncate(content)]

\* analyze_webpage without its except clause
analyze_webpage_uncaught(url_data, fetch, resp) ==
    LET content == extract_text_from_url(fetch)
        r == analyze_try(url_data, resp)
    IN  IF content.none \/ content.len = 0
        THEN [raised |-> FALSE,
              value |-> [url |-> url_data.url,
                         error |-> "Failed to extract content"],
              model_called |-> FALSE, prompt |-> NoPrompt]
        ELSE IF r.raised
        THEN [raised |-> TRUE,
              value |-> [url |-> url_data.url, error |-> r.msg],
              model_called |-> TRUE, prompt |-> truncate(content)]
        ELSE [raised |-> FALSE, value |-> r.value,
              model_called |-> TRUE, prompt |-> truncate(content)]

\* analyze_webpage testing the content only after the model call
analyze_webpage_late_check(url_data, fetch, resp) ==
    LET content == extract_text_from_url(fetch)
        r == analyze_try(url_data, resp)
    IN  IF content.none \/ content.len = 0
        THEN [raised |-> FALSE,
              value |-> [url |-> url_data.url,
                         error |-> "Failed to extract content"],
              model_called |-> TRUE, prompt |-> truncate(content)]
        ELSE IF r.raised
        THEN [raised |-> FALSE,
              value |-> [url |-> url_data.url, error |-> r.msg],
              model_called |-> TRUE, prompt |-> truncate(content)]
        ELSE [raised |-> FALSE, value |-> r.value,
              model_called |-> TRUE, prompt |-> truncate(content)]

\* analyze_webpage: the analysis, and whether and with what content the
\* model was invoked
analyze_webpage(url_data, fetch, resp) ==
    LET content == extract_text_from_url(fetch)
        r == analyze_try(url_data, resp)
    IN  IF content.none \/ content.len = 0
        THEN [raised |-> FALSE,
              value |-> [url |-> url_data.url,
                         error |-> "Failed to extract content"],
              model_called |-> FALSE, prompt |-> NoPrompt]
        ELSE IF r.raised
        THEN [raised |-> FALSE,
              value |-> [url |-> url_data.url, error |-> r.msg],
              model_called |-> TRUE, prompt |-> truncate(content)]
        ELSE [raised |-> FALSE, value |-> r.value,
              model_called |-> TRUE, prompt |-> truncate(content)]

(* ------------------------------ research ------------------------------ *)

FullSynthesis ==
    [answer |-> "m_answer", conclusions |-> "m_conclusions",
     confidence |-> "m_confidence", gaps |-> "m_gaps",
     best_sources |-> "m_sources"]

\* outcomes of the synthesis call followed by json.loads: the call raises,
\* the text is not JSON, or it decodes
SynthesisOutcomes ==
    { [kind |-> "api_error", value |-> FullSynthesis],
      [kind |-> "bad_json", value |-> FullSynthesis],
      [kind |-> "json", value |-> FullSynthesis] }

\* an entry of the call log: the operation, the source index (0 when the
\* call is not about one source) and what the call produced
Call(op, i, out) == [op |-> op, i |-> i, out |-> out]

Ok == [kind |-> "ok"]

\* what extract_text_from_url came back with; the length of a non-empty
\* text is remembered in prompt_content only
FetchKind(fetch) ==
    [kind |-> IF fetch.raised THEN "raise"
              ELSE IF fetch.value.len = 0 THEN "empty" ELSE "text"]

NoResult == [pending |-> TRUE]

\* the try block putting the keys of the synthesis beside the other keys
\* of the result
synthesize_try_flat(out) ==
    CASE out.kind = "api_error" -> Raise("APIError")
      [] out.kind = "bad_json" -> Raise("JSONDecodeError")
      [] OTHER -> Return(Update([query |-> query,
                                 timestamp |-> clock,
                                 sources_analyzed |-> Len(analyses),
                                 webpage_analyses |-> analyses],
                                out.value))

\* the body of the try block at the end of research
synthesize_try(out) ==
    CASE out.kind = "api_error" -> Raise("APIError")
      [] out.kind = "bad_json" -> Raise("JSONDecodeError")
      [] OTHER -> Return([query |-> query,
                          timestamp |-> clock,
                          sources_analyzed |-> Len(analyses),
                          webpage_analyses |-> analyses,
                          synthesis |-> out.value])

\* the except block returning a fresh list in place of analyses
synthesize_except_dropping(e) ==
    [query |-> query,
     timestamp |-> clock,
     sources_analyzed |-> 0,
     webpage_analyses |-> <<>>,
     error |-> e.msg]

\* the except block at the end of research
synthesize_except(e) ==
    [query |-> query,
     timestamp |-> clock,
     sources_analyzed |-> Len(analyses),
     webpage_analyses |-> analyses,
     error |-> e.msg]

NoError(a) == "error" \notin DOMAIN a

\* the synthesis prompt leaving out the records of failed sources
synthesis_request_successes(q, as) ==
    [query |-> q, analyses |-> SelectSeq(as, NoError)]

\* the synthesis prompt: the query and json.dumps(analyses), which writes
\* every record of the list, in order
synthesis_request(q, as) == [query |-> q, analyses |-> as]

\* web_search_tool has not been called
NoResponse == [pending |-> TRUE]

ToolIdle ==
    /\ resp_original = NoResponse
    /\ resp_google = NoResponse
    /\ original_urls = <<>>
    /\ google_urls = <<>>
    /\ r_page = NoResponse
    /\ original_results = <<>>
    /\ google_results = <<>>
    /\ output = NoResponse

Init ==
    /\ max_urls \in 1..MaxUrlsBound
    /\ query \in Queries
    /\ pc = "Searching"
    /\ search_results = <<>>
    /\ filtered_urls = <<>>
    /\ idx = 1
    /\ analyses = <<>>
    /\ result = NoResult
    /\ calls = <<>>
    /\ clock = 0
    /\ extracted = None
    /\ prompt_content = NoPrompt
    /\ synthesis_prompt = [query |-> query, analyses |-> <<>>]
    /\ ToolIdle

\* research, up to the first return: search_urls and the empty check
Search ==
    /\ pc = "Searching"
    /\ \E outcome \in SearchOutcomes :
          /\ LET r == search_urls(outcome)
             IN  IF r.raised
                 THEN /\ pc' = "Raised"
                      /\ UNCHANGED <<search_results, result>>
                 ELSE /\ search_results' = r.value
                      /\ IF Len(r.value) = 0
                         THEN /\ pc' = "Done"
                              /\ result' =
                                    [error |-> "No search results found"]
                         ELSE /\ pc' = "Filtering"
                              /\ UNCHANGED result
          /\ calls' = Append(calls, Call("search", 0, outcome))
    /\ UNCHANGED <<max_urls, query, filtered_urls, idx, analyses, clock,
                   extracted, prompt_content, synthesis_prompt>>
    /\ UNCHANGED tool_vars

\* research: filter_urls and the empty check
Filter ==
    /\ pc = "Filtering"
    /\ filtered_urls' = filter_urls(search_results)
    /\ IF Len(filtered_urls') = 0
       THEN /\ pc' = "Done"
            /\ result' = [error |-> "No reliable sources found"]
       ELSE /\ pc' = "Analyzing"
            /\ UNCHANGED result
    /\ calls' = Append(calls, Call("filter", 0, Ok))
    /\ UNCHANGED <<max_urls, query, search_results, idx, analyses, clock,
                   extracted, prompt_content, synthesis_prompt>>
    /\ UNCHANGED tool_vars

\* the calls of one analyze_webpage that fetches a second time when the
\* first fetch failed
analyze_calls_retry(a, i, fetch, resp) ==
    <<Call("fetch", i, FetchKind(fetch))>>
        \o (IF fetch.raised THEN <<Call("fetch", i, FetchKind(fetch))>>
                            ELSE <<>>)
        \o (IF a.model_called THEN <<Call("model", i, resp)>> ELSE <<>>)

\* the external calls of one analyze_webpage, in order
analyze_calls(a, i, fetch, resp) ==
    <<Call("fetch", i, FetchKind(fetch))>>
        \o (IF a.model_called THEN <<Call("model", i, resp)>> ELSE <<>>)

\* the loop of research leaving at the first failed source
AnalyzeStopAtFailure ==
    /\ pc = "Analyzing"
    /\ \E fetch \in FetchOutcomes, resp \in ModelOutcomes :
          LET a == analyze_webpage(filtered_urls[idx], fetch, resp)
          IN  /\ analyses' = Append(analyses, a.value)
              /\ calls' = calls \o analyze_calls(a, idx, fetch, resp)
                                \o <<Call("sleep", idx, Ok)>>
              /\ clock' = clock + 1
              /\ extracted' = extract_text_from_url(fetch)
              /\ prompt_content' = IF a.model_called THEN a.prompt
                                   ELSE prompt_content
              /\ idx' = idx + 1
              /\ pc' = IF idx = Len(filtered_urls)
                          \/ "error" \in DOMAIN a.value
                       THEN "Synthesizing"
                       ELSE "Analyzing"
    /\ UNCHANGED <<max_urls, query, search_results, filtered_urls, result,
                   synthesis_prompt>>
    /\ UNCHANGED tool_vars

\* the loop of research pausing only after a source that was analyzed
AnalyzeSleepOnSuccess ==
    /\ pc = "Analyzing"
    /\ \E fetch \in FetchOutcomes, resp \in ModelOutcomes :
          LET a == analyze_webpage(filtered_urls[idx], fetch, resp)
              failed == "error" \in DOMAIN a.value
          IN  /\ analyses' = Append(analyses, a.value)
              /\ calls' = calls \o analyze_calls(a, idx, fetch, resp)
                                \o (IF failed THEN <<>>
                                    ELSE <<Call("sleep", idx, Ok)>>)
              /\ clock' = IF failed THEN clock ELSE clock + 1
              /\ extracted' = extract_text_from_url(fetch)
              /\ prompt_content' = IF a.model_called THEN a.prompt
                                   ELSE prompt_content
              /\ idx' = idx + 1
              /\ pc' = IF idx = Len(filtered_urls) THEN "Synthesizing"
                                                    ELSE "Analyzing"
    /\ UNCHANGED <<max_urls, query, search_results, filtered_urls, result,
                   synthesis_prompt>>
    /\ UNCHANGED tool_vars

\* research: one iteration of the loop over filtered_urls
Analyze ==
    /\ pc = "Analyzing"
    /\ \E fetch \in FetchOutcomes, resp \in ModelOutcomes :
          LET a == analyze_webpage(filtered_urls[idx], fetch, resp)
          IN  IF a.raised
              THEN /\ pc' = "Raised"
                   /\ calls' = calls \o analyze_calls(a, idx, fetch, resp)
                   /\ UNCHANGED <<analyses, idx, clock, extracted,
                                  prompt_content>>
              ELSE /\ analyses' = Append(analyses, a.value)
                   /\ calls' = calls \o analyze_calls(a, idx, fetch, resp)
                                     \o <<Call("sleep", idx, Ok)>>
                   /\ clock' = clock + 1
                   /\ extracted' = extract_text_from_url(fetch)
                   /\ prompt_content' = IF a.model_called THEN a.prompt
                                        ELSE prompt_content
                   /\ idx' = idx + 1
                   /\ pc' = IF idx = Len(filtered_urls) THEN "Synthesizing"
                                                         ELSE "Analyzing"
    /\ UNCHANGED <<max_urls, query, search_results, filtered_urls, result,
                   synthesis_prompt>>
    /\ UNCHANGED tool_vars

\* research: the synthesis prompt, the synthesis call and the final result
Synthesize ==
    /\ pc = "Synthesizing"
    /\ synthesis_prompt' = synthesis_request(query, analyses)
    /\ \E out \in SynthesisOutcomes :
          LET r == synthesize_try(out)
          IN  /\ result' = IF r.raised THEN synthesize_except(r)
                                        ELSE r.value
              /\ calls' = Append(calls, Call("synthesis", 0, out))
    /\ pc' = "Done"
    /\ UNCHANGED <<max_urls, query, search_results, filtered_urls, idx,
                   analyses, clock, extracted, prompt_content>>
    /\ UNCHANGED tool_vars

Next == Search \/ Filter \/ Analyze \/ Synthesize

Spec == Init /\ [][Next]_vars

(* ------------------------ calls that never return --------------------- *)

\* the timeouts the code gives to its outbound calls: requests.get has
\* timeout=10; the search call and the two messages.create calls get none
ExplicitTimeout == [fetch |-> 10]

HasTimeout(op) == op \in DOMAIN ExplicitTimeout

Hang == [kind |-> "hang"]

\* A call with a timeout that gets no answer raises, which is one of its
\* outcomes above.  A call without one waits for as long as the other side
\* keeps silent: research stays inside the call.

\* the search call never returns
SearchHangs ==
    /\ pc = "Searching"
    /\ ~HasTimeout("search")
    /\ pc' = "Hung"
    /\ calls' = Append(calls, Call("search", 0, Hang))
    /\ UNCHANGED <<max_urls, query, search_results, filtered_urls, idx,
                   analyses, result, clock, extracted, prompt_content,
                   synthesis_prompt>>
    /\ UNCHANGED tool_vars

\* the page was fetched and gave text, and the model call on it never
\* returns
ModelHangs ==
    /\ pc = "Analyzing"
    /\ ~HasTimeout("model")
    /\ \E fetch \in FetchOutcomes :
          /\ ~fetch.raised
          /\ fetch.value.len > 0
          /\ extracted' = extract_text_from_url(fetch)
          /\ prompt_content' = truncate(extracted')
          /\ calls' = calls \o <<Call("fetch", idx, FetchKind(fetch)),
                                 Call("model", idx, Hang)>>
    /\ pc' = "Hung"
    /\ UNCHANGED <<max_urls, query, search_results, filtered_urls, idx,
                   analyses, result, clock, synthesis_prompt>>
    /\ UNCHANGED tool_vars

\* the synthesis call never returns
SynthesisHangs ==
    /\ pc = "Synthesizing"
    /\ ~HasTimeout("synthesis")
    /\ synthesis_prompt' = synthesis_request(query, analyses)
    /\ pc' = "Hung"
    /\ calls' = Append(calls, Call("synthesis", 0, Hang))
    /\ UNCHANGED <<max_urls, query, search_results, filtered_urls, idx,
                   analyses, result, clock, extracted, prompt_content>>
    /\ UNCHANGED tool_vars

NextHang == Next \/ SearchHangs \/ ModelHangs \/ SynthesisHangs

\* research runs on whenever it can: every step that is possible is
\* eventually taken
SpecHang == Init /\ [][NextHang]_vars /\ WF_vars(NextHang)

(* ------------------ several invocations on one tool ------------------- *)

\* In SpecConc two invocations of research run on the same WebResearchTool,
\* their steps interleaved in any order.  max_urls is the attribute of the
\* tool they share; query, pc, search_results, filtered_urls, idx, analyses
\* and result are the arguments, locals and return value of research, so
\* each holds one value per invocation.  The call log, the clock and the
\* prompts are not followed here.

Invocations == {1, 2}

\* longest item list the search backend returns to one of the invocations
MaxConcResults == 2

\* what the backends answer to the interleaved invocations: a part of the
\* outcomes above
ConcSearchOutcomes ==
    {o \in SearchOutcomes :
        \/ o.raised
        \/ /\ Len(o.value) <= MaxConcResults
           /\ \A k \in 1..Len(o.value) :
                 /\ "snippet" \in DOMAIN o.value[k]
                 /\ o.value[k].link \in {UrlEdu, UrlNature, UrlBlog}}

ConcFetchOutcomes ==
    {o \in FetchOutcomes : o.raised \/ o.value.len = max_content_length}

ConcModelOutcomes ==
    {o \in ModelOutcomes :
        o.kind = "api_error" \/ (o.kind = "dict" /\ o.value = FullAnalysis)}

ConcSynthesisOutcomes ==
    {o \in SynthesisOutcomes : o.kind \in {"api_error", "json"}}

\* analyses.append(analysis) on a list that all invocations share, as an
\* attribute of the tool would be
accumulate_shared(acc, i, analysis) ==
    [j \in DOMAIN acc |-> Append(acc[j], analysis)]

\* analyses.append(analysis) of invocation i: analyses is a local of
\* research
accumulate(acc, i, analysis) == [acc EXCEPT ![i] = Append(@, analysis)]

InitConc ==
    /\ max_urls \in 1..MaxUrlsBound
    /\ query = [i \in Invocations |-> IF i = 1 THEN "q1" ELSE "q2"]
    /\ pc = [i \in Invocations |-> "Searching"]
    /\ search_results = [i \in Invocations |-> <<>>]
    /\ filtered_urls = [i \in Invocations |-> <<>>]
    /\ idx = [i \in Invocations |-> 1]
    /\ analyses = [i \in Invocations |-> <<>>]
    /\ result = [i \in Invocations |-> NoResult]
    /\ calls = <<>>
    /\ clock = 0
    /\ extracted = None
    /\ prompt_content = NoPrompt
    /\ synthesis_prompt = synthesis_request("q1", <<>>)
    /\ ToolIdle

\* invocation i: search_urls and the empty check
ConcSearch(i) ==
    /\ pc[i] = "Searching"
    /\ \E outcome \in ConcSearchOutcomes :
          LET r == search_urls(outcome)
          IN  IF r.raised
              THEN /\ pc' = [pc EXCEPT ![i] = "Raised"]
                   /\ UNCHANGED <<search_results, result>>
              ELSE /\ search_results' =
                         [search_results EXCEPT ![i] = r.value]
                   /\ IF Len(r.value) = 0
                      THEN /\ pc' = [pc EXCEPT ![i] = "Done"]
                           /\ result' =
                                 [result EXCEPT ![i] =
                                     [error |-> "No search results found"]]
                      ELSE /\ pc' = [pc EXCEPT ![i] = "Filtering"]
                           /\ UNCHANGED result
    /\ UNCHANGED <<max_urls, query, filtered_urls, idx, analyses, calls,
                   clock, extracted, prompt_content, synthesis_prompt>>
    /\ UNCHANGED tool_vars

\* invocation i: filter_urls and the empty check
ConcFilter(i) ==
    /\ pc[i] = "Filtering"
    /\ filtered_urls' =
          [filtered_urls EXCEPT ![i] = filter_urls(search_results[i])]
    /\ IF Len(filtered_urls'[i]) = 0
       THEN /\ pc' = [pc EXCEPT ![i] = "Done"]
            /\ result' = [result EXCEPT ![i] =
                             [error |-> "No reliable sources found"]]
       ELSE /\ pc' = [pc EXCEPT ![i] = "Analyzing"]
            /\ UNCHANGED result
    /\ UNCHANGED <<max_urls, query, search_results, idx, analyses, calls,
                   clock, extracted, prompt_content, synthesis_prompt>>
    /\ UNCHANGED tool_vars

\* invocation i: one iteration of the loop over its filtered_urls
ConcAnalyze(i) ==
    /\ pc[i] = "Analyzing"
    /\ \E fetch \in ConcFetchOutcomes, resp \in ConcModelOutcomes :
          LET a == analyze_webpage(filtered_urls[i][idx[i]], fetch, resp)
          IN  IF a.raised
              THEN /\ pc' = [pc EXCEPT ![i] = "Raised"]
                   /\ UNCHANGED <<analyses, idx>>
              ELSE /\ analyses' = accumulate(analyses, i, a.value)
                   /\ idx' = [idx EXCEPT ![i] = @ + 1]
                   /\ pc' = [pc EXCEPT ![i] =
                                IF idx[i] = Len(filtered_urls[i])
                                THEN "Synthesizing" ELSE "Analyzing"]
    /\ UNCHANGED <<max_urls, query, search_results, filtered_urls, result,
                   calls, clock, extracted, prompt_content,
                   synthesis_prompt>>
    /\ UNCHANGED tool_vars

\* invocation i: the synthesis call and the final result
ConcSynthesize(i) ==
    /\ pc[i] = "Synthesizing"
    /\ \E out \in ConcSynthesisOutcomes :
          result' =
             [result EXCEPT ![i] =
                 IF out.kind = "json"
                 THEN [query |-> query[i],
                       timestamp |-> clock,
                       sources_analyzed |-> Len(analyses[i]),
                       webpage_analyses |-> analyses[i],
                       synthesis |-> out.value]
                 ELSE [query |-> query[i],
                       timestamp |-> clock,
                       sources_analyzed |-> Len(analyses[i]),
                       webpage_analyses |-> analyses[i],
                       error |-> "APIError"]]
    /\ pc' = [pc EXCEPT ![i] = "Done"]
    /\ UNCHANGED <<max_urls, query, search_results, filtered_urls, idx,
                   analyses, calls, clock, extracted, prompt_content,
                   synthesis_prompt>>
    /\ UNCHANGED tool_vars

NextConc ==
    \E i \in Invocations :
        ConcSearch(i) \/ ConcFilter(i) \/ ConcAnalyze(i) \/ ConcSynthesize(i)

SpecConc == InitConc /\ [][NextConc]_vars

(* --------------- web_search_tool (ell-agentic-search.py) -------------- *)

\* In SpecTool one call of web_search_tool runs: two searches on the
\* Searxng instance, then fetch_content on every URL kept, then json.dumps.
\* pc is the position in web_search_tool: "SearchingOriginal",
\* "SearchingGoogle", "FetchingOriginal", "FetchingGoogle", "Dumping",
\* "Returned" or "Raised".  The variables of research stay as __init__
\* left them.

\* most results in one answer of the search instance
MaxSearxResults == 6

\* how many URLs web_search_tool keeps of each search
original_limit == 3
google_limit == 5

ToolUrls == <<UrlEdu, UrlBlog>>

\* a result of the search instance, and one without its "url"
SearxItem(u) == [url |-> u, title |-> "t"]
SearxItemNoUrl == [title |-> "t"]

\* result lists: n results whose URLs alternate, from either URL first; and
\* such lists with a last result that has no "url"
SearxLists ==
    LET Alt(first, n) ==
            [k \in 1..n |-> SearxItem(ToolUrls[((k + first) % 2) + 1])]
        Good == {Alt(first, n) : first \in 1..2, n \in 0..MaxSearxResults}
    IN  Good \cup
        {Append(Alt(1, n), SearxItemNoUrl) : n \in {0, MaxSearxResults - 1}}

\* what requests.get gives for a search: an exception (connection refused,
\* timeout), or a response with a status code and a body; the body is not
\* JSON, a JSON list, or a JSON object with or without "results"
SearxResponses ==
    {[raised |-> TRUE, msg |-> "ConnectionError"],
     [raised |-> FALSE, status_code |-> 500, body |-> [kind |-> "text"]],
     [raised |-> FALSE, status_code |-> 200, body |-> [kind |-> "text"]],
     [raised |-> FALSE, status_code |-> 200, body |-> [kind |-> "list"]],
     [raised |-> FALSE, status_code |-> 200,
      body |-> [kind |-> "object", obj |-> [query |-> "q1"]]]}
    \cup
    {[raised |-> FALSE, status_code |-> 200,
      body |-> [kind |-> "object", obj |-> [results |-> l]]] :
        l \in SearxLists}

\* the body of one try block of the searches:
\*   resp = requests.get(...)
\*   if resp.status_code == 200:
\*       data = resp.json()
\*       urls = [result["url"] for result in data.get("results", [])][:limit]
\*   else: urls = []
searx_urls_try(response, limit) ==
    IF response.raised THEN Raise(response.msg)
    ELSE IF response.status_code = 200
    THEN IF response.body.kind = "text" THEN Raise("JSONDecodeError")
         ELSE IF response.body.kind = "list" THEN Raise("AttributeError")
         ELSE LET data == response.body.obj
                  results == IF "results" \in DOMAIN data
                             THEN data.results ELSE <<>>
              IN  IF \E k \in 1..Len(results) : "url" \notin DOMAIN results[k]
                  THEN Raise("KeyError")
                  ELSE Return(Take([k \in 1..Len(results) |->
                                       results[k].url], limit))
    ELSE Return(<<>>)

\* try ... except Exception: urls = []
searx_urls(response, limit) ==
    LET t == searx_urls_try(response, limit)
    IN  IF t.raised THEN Return(<<>>) ELSE t

\* page texts are sequences of characters
Whitespace == {" ", "\t", "\n"}

PageTexts == {<<" ", "a", " ">>, <<" ", "\n">>}

\* what requests.get gives for a page
PageResponses ==
    {[raised |-> TRUE, msg |-> "Timeout"]} \cup
    {[raised |-> FALSE, status_code |-> 404, text |-> <<" ", "a", " ">>]} \cup
    {[raised |-> FALSE, status_code |-> 200, text |-> t] : t \in PageTexts}

\* str.strip()
RECURSIVE lstrip(_)
lstrip(s) ==
    IF Len(s) > 0 /\ Head(s) \in Whitespace THEN lstrip(Tail(s)) ELSE s

RECURSIVE rstrip(_)
rstrip(s) ==
    IF Len(s) > 0 /\ s[Len(s)] \in Whitespace
    THEN rstrip(SubSeq(s, 1, Len(s) - 1)) ELSE s

strip(s) == rstrip(lstrip(s))

\* the try block of fetch_content
fetch_content_try(response) ==
    IF response.raised THEN Raise(response.msg)
    ELSE IF response.status_code = 200 THEN Return(strip(response.text))
    ELSE Return(<<>>)

\* fetch_content with no except clause
fetch_content_uncaught(response) == fetch_content_try(response)

\* fetch_content: except Exception: return ""
fetch_content(response) ==
    LET t == fetch_content_try(response)
    IN  IF t.raised THEN Return(<<>>) ELSE t

\* json.dumps of a dict: a str that holds the keys in insertion order, each
\* with its value
dumps(pairs) == [type |-> "str", json |-> pairs]

\* where web_search_tool stands once the lists are this long
fetch_position(ou, ores, gu, gres) ==
    IF Len(ores) < Len(ou) THEN "FetchingOriginal"
    ELSE IF Len(gres) < Len(gu) THEN "FetchingGoogle"
    ELSE "Dumping"

research_vars ==
    <<max_urls, query, search_results, filtered_urls, idx, analyses, result,
      calls, clock, extracted, prompt_content, synthesis_prompt>>

InitTool ==
    /\ max_urls \in 1..MaxUrlsBound
    /\ query \in Queries
    /\ pc = "SearchingOriginal"
    /\ search_results = <<>>
    /\ filtered_urls = <<>>
    /\ idx = 1
    /\ analyses = <<>>
    /\ result = NoResult
    /\ calls = <<>>
    /\ clock = 0
    /\ extracted = None
    /\ prompt_content = NoPrompt
    /\ synthesis_prompt = [query |-> query, analyses |-> <<>>]
    /\ ToolIdle

\* the first search
SearchOriginal ==
    /\ pc = "SearchingOriginal"
    /\ \E response \in SearxResponses :
          LET u == searx_urls(response, original_limit)
          IN  /\ resp_original' = response
              /\ IF u.raised
                 THEN /\ pc' = "Raised"
                      /\ UNCHANGED original_urls
                 ELSE /\ pc' = "SearchingGoogle"
                      /\ original_urls' = u.value
    /\ UNCHANGED <<resp_google, google_urls, r_page, original_results,
                   google_results, output>>
    /\ UNCHANGED research_vars

\* the !google search
SearchGoogle ==
    /\ pc = "SearchingGoogle"
    /\ \E response \in SearxResponses :
          LET u == searx_urls(response, google_limit)
          IN  /\ resp_google' = response
              /\ IF u.raised
                 THEN /\ pc' = "Raised"
                      /\ UNCHANGED google_urls
                 ELSE /\ google_urls' = u.value
                      /\ pc' = fetch_position(original_urls, original_results,
                                              u.value, google_results)
    /\ UNCHANGED <<resp_original, original_urls, r_page, original_results,
                   google_results, output>>
    /\ UNCHANGED research_vars

\* one element of original_results
FetchOriginal ==
    /\ pc = "FetchingOriginal"
    /\ \E response \in PageResponses :
          LET url == original_urls[Len(original_results) + 1]
              c == fetch_content(response)
          IN  /\ r_page' = response
              /\ IF c.raised
                 THEN /\ pc' = "Raised"
                      /\ UNCHANGED original_results
                 ELSE /\ original_results' =
                            Append(original_results,
                                   [url |-> url, content |-> c.value])
                      /\ pc' = fetch_position(original_urls,
                                              original_results',
                                              google_urls, google_results)
    /\ UNCHANGED <<resp_original, resp_google, original_urls, google_urls,
                   google_results, output>>
    /\ UNCHANGED research_vars

\* one element of google_results
FetchGoogle ==
    /\ pc = "FetchingGoogle"
    /\ \E response \in PageResponses :
          LET url == google_urls[Len(google_results) + 1]
              c == fetch_content(response)
          IN  /\ r_page' = response
              /\ IF c.raised
                 THEN /\ pc' = "Raised"
                      /\ UNCHANGED google_results
                 ELSE /\ google_results' =
                            Append(google_results,
                                   [url |-> url, content |-> c.value])
                      /\ pc' = fetch_position(original_urls, original_results,
                                              google_urls, google_results')
    /\ UNCHANGED <<resp_original, resp_google, original_urls, google_urls,
                   original_results, output>>
    /\ UNCHANGED research_vars

\* output = {...}; return json.dumps(output)
Dump ==
    /\ pc = "Dumping"
    /\ output' = dumps(<<<<"google_results", google_results>>,
                         <<"original_results", original_results>>>>)
    /\ pc' = "Returned"
    /\ UNCHANGED <<resp_original, resp_google, original_urls, google_urls,
                   r_page, original_results, google_results>>
    /\ UNCHANGED research_vars

NextTool ==
    SearchOriginal \/ SearchGoogle \/ FetchOriginal \/ FetchGoogle \/ Dump

SpecTool == InitTool /\ [][NextTool]_vars

(* ======================= properties of the model ====================== *)

Keys(r) == DOMAIN r

\* the entries of the call log for one operation
CallsOf(op) == {j \in 1..Len(calls) : calls[j].op = op}

\* "equals or ends with an entry of the trust policy", stated on the
\* candidate's own domain field
MatchesPolicy(domain) ==
    \E t \in 1..Len(trusted_domains) :
        \/ domain = trusted_domains[t]
        \/ \E k \in 1..Len(domain) :
              SubSeq(domain, k + 1, Len(domain)) = trusted_domains[t]

\* positions of the trusted candidates in the search results
TrustedPositions ==
    {i \in 1..Len(search_results) : MatchesPolicy(search_results[i].source)}

FilterDone == CallsOf("filter") # {}

SynthesisFailed ==
    /\ pc = "Done"
    /\ \E j \in CallsOf("synthesis") :
          calls[j].out.kind \in {"api_error", "bad_json"}

HasErrorRecord(as) == \E i \in 1..Len(as) : "error" \in Keys(as[i])
HasCleanRecord(as) == \E i \in 1..Len(as) : "error" \notin Keys(as[i])

\* C1: a run that got past Filtering returns a result whose
\* sources_analyzed equals the length of webpage_analyses and the number of
\* filtered candidates, and that number is at most max_urls.
C1_SourcesAnalyzedCount ==
    (pc = "Done" /\ Len(filtered_urls) > 0) =>
        /\ {"sources_analyzed", "webpage_analyses"} \subseteq Keys(result)
        /\ result.sources_analyzed = Len(result.webpage_analyses)
        /\ result.sources_analyzed = Len(filtered_urls)
        /\ Len(filtered_urls) <= max_urls

\* a finished run over two sources, one failed and one analyzed, out of
\* more trusted candidates than max_urls
C1_Witness ==
    /\ pc = "Done"
    /\ "sources_analyzed" \in Keys(result)
    /\ result.sources_analyzed = 2
    /\ Cardinality(TrustedPositions) > max_urls
    /\ HasErrorRecord(result.webpage_analyses)
    /\ HasCleanRecord(result.webpage_analyses)

\* C2: when the synthesis call fails or its answer does not decode, the
\* result has exactly query, timestamp, sources_analyzed, webpage_analyses
\* and error (no synthesis), and webpage_analyses is the whole accumulator,
\* one record per filtered candidate.
C2_SynthesisFailureKeepsAnalyses ==
    SynthesisFailed =>
        /\ Keys(result) = {"query", "timestamp", "sources_analyzed",
                           "webpage_analyses", "error"}
        /\ result.query = query
        /\ result.webpage_analyses = analyses
        /\ Len(result.webpage_analyses) = Len(filtered_urls)
        /\ result.sources_analyzed = Len(filtered_urls)
        /\ \A i \in 1..Len(filtered_urls) :
              result.webpage_analyses[i].url = filtered_urls[i].url

\* a failed synthesis after two sources, one failed and one analyzed
C2_Witness ==
    /\ SynthesisFailed
    /\ Len(analyses) = 2
    /\ HasErrorRecord(analyses)
    /\ HasCleanRecord(analyses)

IsSuccessRecord(a) ==
    /\ {"summary", "key_findings", "credibility"} \subseteq Keys(a)
    /\ "error" \notin Keys(a)

IsErrorOnlyRecord(a) == Keys(a) = {"url", "error"}

\* C3: every record produced by analyze_webpage is a full success record
\* (summary, key_findings and credibility, no error) or an error-only
\* record (url and error), never a partial mix.
C3_NoPartialMix ==
    \A i \in 1..Len(analyses) :
        IsSuccessRecord(analyses[i]) \/ IsErrorOnlyRecord(analyses[i])

\* C4: a candidate whose extraction came back absent or empty has a record
\* with an error field and none of summary, key_findings, credibility.
C4_ExtractionFailureRecord ==
    \A j \in CallsOf("fetch") :
        calls[j].out.kind \in {"raise", "empty"} =>
            /\ calls[j].i <= Len(analyses)
            /\ "error" \in Keys(analyses[calls[j].i])
            /\ Keys(analyses[calls[j].i])
                  \cap {"summary", "key_findings", "credibility"} = {}

\* one source whose fetch failed and one whose text was empty
C4_Witness ==
    /\ \E j \in CallsOf("fetch") : calls[j].out.kind = "raise"
    /\ \E j \in CallsOf("fetch") : calls[j].out.kind = "empty"
    /\ Len(analyses) = 2

SuccessKeys ==
    {"query", "timestamp", "sources_analyzed", "webpage_analyses",
     "synthesis"}

\* C5: no exception escapes research(): whatever the search backend, the
\* fetches, the per-source model calls and the synthesis call do, the run
\* never ends in an exception, and a finished run has returned the success
\* record or a record with an error field.
C5_NoExceptionEscapes ==
    /\ pc # "Raised"
    /\ pc = "Done" =>
          \/ Keys(result) = SuccessKeys
          \/ "error" \in Keys(result)

\* a finished run in which a fetch, a per-source model call, a per-source
\* decode and the synthesis all failed
C5_Witness ==
    /\ SynthesisFailed
    /\ \E j \in CallsOf("fetch") : calls[j].out.kind = "raise"
    /\ \E j \in CallsOf("model") :
          calls[j].out.kind \in {"api_error", "bad_json", "non_dict"}

\* C6: after filter_urls, every filtered candidate has a domain that
\* equals or ends with an entry of the trust policy.
C6_OnlyTrustedInOutput ==
    \A i \in 1..Len(filtered_urls) : MatchesPolicy(filtered_urls[i].source)

\* a filtered list taken from search results that start with an untrusted
\* candidate
C6_Witness ==
    /\ FilterDone
    /\ Len(filtered_urls) > 0
    /\ 1 \notin TrustedPositions

\* how many trusted candidates stand at or before position i of a list
\* whose trusted positions are T
Rank(T, i) == Cardinality({j \in T : j <= i})

\* C7: filter_urls truncates after filtering: its output is the first
\* max_urls trusted candidates of the input, in input order, so its length
\* is min(max_urls, number of trusted inputs).
C7_TruncateAfterFilter ==
    FilterDone =>
        LET T == TrustedPositions
        IN  /\ Len(filtered_urls) = Min({max_urls, Cardinality(T)})
            /\ \A i \in T :
                  Rank(T, i) <= max_urls =>
                      filtered_urls[Rank(T, i)] = search_results[i]

\* max_urls trusted candidates kept, one of them found beyond position
\* max_urls behind an untrusted candidate, and a trusted one cut off
C7_Witness ==
    LET T == TrustedPositions
    IN  /\ FilterDone
        /\ 1 \notin T
        /\ Len(filtered_urls) = max_urls
        /\ \E i \in T : i > max_urls /\ Rank(T, i) <= max_urls
        /\ Cardinality(T) > max_urls

NoCallOf(ops) == \A j \in 1..Len(calls) : calls[j].op \notin ops

SearchDone == pc # "Searching"

\* C8 as stated: when Discovery yields no candidates the run returns
\* exactly {error: "no search results found"} and makes no filter, fetch
\* or model call.
C8_AsStated ==
    (SearchDone /\ Len(search_results) = 0) =>
        /\ pc = "Done"
        /\ result = [error |-> "no search results found"]
        /\ NoCallOf({"filter", "fetch", "model", "synthesis"})

\* C8 amended: when Discovery yields no candidates (an empty list, or a
\* backend error degraded to one) the run returns exactly
\* {error: "No search results found"} and makes no filter, fetch or model
\* call.
C8_NoSearchResults ==
    (SearchDone /\ Len(search_results) = 0) =>
        /\ pc = "Done"
        /\ result = [error |-> "No search results found"]
        /\ NoCallOf({"filter", "fetch", "model", "synthesis"})

\* the search backend raised and the run returned
C8_Witness ==
    /\ pc = "Done"
    /\ Len(search_results) = 0
    /\ \E j \in CallsOf("search") : calls[j].out.raised

AllUntrusted ==
    /\ Len(search_results) > 0
    /\ TrustedPositions = {}

\* C9 as stated: when every candidate is untrusted the filter output is
\* empty and the run returns {error: "no reliable sources found"} without
\* a fetch or a model call.
C9_AsStated ==
    (FilterDone /\ AllUntrusted) =>
        /\ Len(filtered_urls) = 0
        /\ pc = "Done"
        /\ result = [error |-> "no reliable sources found"]
        /\ NoCallOf({"fetch", "model", "synthesis"})

\* C9 amended: when Discovery returns candidates that are all untrusted,
\* the filter output is empty and the run returns
\* {error: "No reliable sources found"} without a fetch or a model call.
C9_NoReliableSources ==
    (FilterDone /\ AllUntrusted) =>
        /\ Len(filtered_urls) = 0
        /\ pc = "Done"
        /\ result = [error |-> "No reliable sources found"]
        /\ NoCallOf({"fetch", "model", "synthesis"})

\* two untrusted candidates were filtered away
C9_Witness ==
    /\ FilterDone
    /\ Len(search_results) = 2
    /\ TrustedPositions = {}
    /\ pc = "Done"

\* the model answered for source i with a record of exactly the four
\* fields (so the extraction of source i gave non-empty text)
FourFieldAnswer(j) ==
    /\ calls[j].op = "model"
    /\ calls[j].out.kind = "dict"
    /\ Keys(calls[j].out.value) = AnalysisFields

\* C10: when extraction gives non-empty text and the model returns a
\* decodable record with the four fields summary, key_findings,
\* credibility and date, the record of that source has no error key and
\* has the four fields as returned plus the candidate's url, title and
\* domain.
C10_SuccessRecord ==
    \A j \in 1..Len(calls) :
        (FourFieldAnswer(j) /\ calls[j].i <= Len(analyses)) =>
            LET a == analyses[calls[j].i]
                c == filtered_urls[calls[j].i]
            IN  /\ "error" \notin Keys(a)
                /\ AnalysisFields \cup {"url", "title", "source"}
                      \subseteq Keys(a)
                /\ \A f \in AnalysisFields : a[f] = calls[j].out.value[f]
                /\ a.url = c.url
                /\ a.title = c.title
                /\ a.source = c.source

\* a source analyzed from a four-field answer
C10_Witness ==
    \E j \in 1..Len(calls) :
        /\ FourFieldAnswer(j)
        /\ calls[j].i <= Len(analyses)
        /\ \E k \in CallsOf("fetch") :
              calls[k].i = calls[j].i /\ calls[k].out.kind = "text"

\* the stage changes research can make
StageSteps ==
    { <<"Searching", "Filtering">>, <<"Searching", "Done">>,
      <<"Filtering", "Analyzing">>, <<"Filtering", "Done">>,
      <<"Analyzing", "Analyzing">>, <<"Analyzing", "Synthesizing">>,
      <<"Synthesizing", "Done">> }

\* C11: the stages come in the order Searching, Filtering, Analyzing (one
\* source after the other), Synthesizing, Done and none is entered again;
\* the synthesis call is made once in a run that passes Filtering, after
\* all filtered candidates were analyzed, and never in a run that leaves
\* from Searching or Filtering; nothing happens after Done.
C11_StageOrder ==
    [][ /\ <<pc, pc'>> \in StageSteps
        /\ pc = "Searching" => Len(calls) = 0
        /\ pc' = "Analyzing" => idx' = Len(analyses') + 1
        /\ (pc = "Analyzing" /\ pc' = "Analyzing") => idx' = idx + 1
        /\ pc' = "Synthesizing" =>
              /\ Len(analyses') = Len(filtered_urls')
              /\ Len(filtered_urls') > 0
        /\ \A j \in 1..Len(calls') :
              calls'[j].op = "synthesis" =>
                  /\ j = Len(calls')
                  /\ pc = "Synthesizing"
                  /\ Len(analyses') = Len(filtered_urls')
        /\ (pc' = "Done" /\ Len(filtered_urls') > 0) =>
              calls'[Len(calls')].op = "synthesis"
        /\ (pc' = "Done" /\ Len(filtered_urls') = 0) =>
              \A j \in 1..Len(calls') : calls'[j].op \in {"search", "filter"}
      ]_vars

\* a run through all the stages with two sources
C11_Witness ==
    /\ pc = "Done"
    /\ Len(filtered_urls) = 2
    /\ Len(analyses) = 2
    /\ HasErrorRecord(analyses)
    /\ Cardinality(CallsOf("synthesis")) = 1

\* C12: webpage_analyses[i] is the record of the i-th filtered candidate
\* and carries that candidate's url, whether source i succeeded or failed
\* and whatever happened to the sources before and after it.
C12_RecordPerCandidateInOrder ==
    /\ Len(analyses) <= Len(filtered_urls)
    /\ \A i \in 1..Len(analyses) :
          /\ "url" \in Keys(analyses[i])
          /\ analyses[i].url = filtered_urls[i].url
    /\ (pc = "Done" /\ Len(filtered_urls) > 0) =>
          /\ Len(result.webpage_analyses) = Len(filtered_urls)
          /\ \A i \in 1..Len(filtered_urls) :
                result.webpage_analyses[i].url = filtered_urls[i].url

\* two sources: the model answered the first with a url of its own, the
\* second failed
C12_Witness ==
    /\ pc = "Done"
    /\ Len(filtered_urls) = 2
    /\ \E j \in CallsOf("model") :
          /\ calls[j].i = 1
          /\ calls[j].out.kind = "dict"
          /\ "url" \in Keys(calls[j].out.value)
    /\ "error" \in Keys(result.webpage_analyses[2])
    /\ "summary" \notin Keys(result.webpage_analyses[2])

SynthesisCalled == CallsOf("synthesis") # {}

\* C13: the synthesis request holds the original query and the whole
\* ordered sequence of accumulated records, failures included, and the
\* synthesis call is made whenever the run passed Filtering, also when
\* every source failed.
C13_SynthesisSeesAllRecords ==
    /\ SynthesisCalled =>
          /\ synthesis_prompt.query = query
          /\ synthesis_prompt.analyses = analyses
          /\ Len(synthesis_prompt.analyses) = Len(filtered_urls)
          /\ \A i \in 1..Len(filtered_urls) :
                synthesis_prompt.analyses[i].url = filtered_urls[i].url
    /\ (pc = "Done" /\ Len(filtered_urls) > 0) => SynthesisCalled

\* synthesis called over two records that are both failures
C13_Witness ==
    /\ SynthesisCalled
    /\ Len(synthesis_prompt.analyses) = 2
    /\ ~HasCleanRecord(synthesis_prompt.analyses)

\* the fetches that came back absent or empty, and those that gave text
FailedFetches ==
    {j \in CallsOf("fetch") : calls[j].out.kind \in {"raise", "empty"}}

TextFetches == {j \in CallsOf("fetch") : calls[j].out.kind = "text"}

\* C14 as stated: an absent or empty text gives the record
\* {url, error: "extraction failed"} without a model call, so the number of
\* per-source model calls is the number of candidates with non-empty text.
C14_AsStated ==
    /\ \A j \in FailedFetches :
          calls[j].i <= Len(analyses) =>
              /\ analyses[calls[j].i] =
                    [url |-> filtered_urls[calls[j].i].url,
                     error |-> "extraction failed"]
              /\ \A m \in CallsOf("model") : calls[m].i # calls[j].i
    /\ Cardinality(CallsOf("model")) = Cardinality(TextFetches)

\* C14 amended: an absent or empty text gives the record
\* {url, error: "Failed to extract content"} without a model call, so the
\* number of per-source model calls is the number of candidates with
\* non-empty text.
C14_ShortCircuit ==
    /\ \A j \in FailedFetches :
          calls[j].i <= Len(analyses) =>
              /\ analyses[calls[j].i] =
                    [url |-> filtered_urls[calls[j].i].url,
                     error |-> "Failed to extract content"]
              /\ \A m \in CallsOf("model") : calls[m].i # calls[j].i
    /\ Cardinality(CallsOf("model")) = Cardinality(TextFetches)

\* two sources, one with empty text and one analyzed by the model
C14_Witness ==
    /\ Len(analyses) = 2
    /\ \E j \in FailedFetches : calls[j].out.kind = "empty"
    /\ Cardinality(CallsOf("model")) = 1

\* how many calls of an operation were made for source i
CountFor(op, i) == Cardinality({j \in CallsOf(op) : calls[j].i = i})

\* C15: nothing is retried: the search backend is called once, the
\* extractor once per filtered candidate, the model at most once per
\* filtered candidate and the synthesis at most once, whichever of them
\* fail; a failed source is followed by the next one.
C15_NoRetry ==
    /\ Cardinality(CallsOf("search")) = (IF SearchDone THEN 1 ELSE 0)
    /\ \A i \in 1..Len(filtered_urls) :
          /\ CountFor("fetch", i) = (IF i <= Len(analyses) THEN 1 ELSE 0)
          /\ CountFor("model", i) <= 1
    /\ \A j \in 1..Len(calls) :
          calls[j].op \in {"fetch", "model"} =>
              calls[j].i \in 1..Len(filtered_urls)
    /\ Cardinality(CallsOf("synthesis")) <= 1
    /\ pc = "Analyzing" => idx = Len(analyses) + 1
    /\ (pc \in {"Synthesizing", "Done"} /\ Len(filtered_urls) > 0) =>
          Len(analyses) = Len(filtered_urls)

\* a finished run of two sources in which the first fetch, the second
\* model call and the synthesis failed
C15_Witness ==
    /\ SynthesisFailed
    /\ Len(filtered_urls) = 2
    /\ \E j \in CallsOf("fetch") : calls[j].i = 1 /\ calls[j].out.kind = "raise"
    /\ \E j \in CallsOf("model") :
          calls[j].i = 2 /\ calls[j].out.kind = "api_error"

\* C16: after the record of source i is appended, a delay of 1 time unit
\* passes before any further external call (the fetch of source i+1, or
\* the synthesis call after the last source), whether source i succeeded
\* or failed.
C16_InterSourceDelay ==
    /\ \A j \in 1..Len(calls) :
          /\ (calls[j].op = "fetch" /\ calls[j].i > 1) =>
                calls[j - 1] = Call("sleep", calls[j].i - 1, Ok)
          /\ calls[j].op = "synthesis" =>
                calls[j - 1] = Call("sleep", Len(filtered_urls), Ok)
          /\ calls[j].op = "sleep" =>
                /\ calls[j - 1].op \in {"fetch", "model"}
                /\ calls[j - 1].i = calls[j].i
    /\ \A i \in 1..Len(analyses) : CountFor("sleep", i) = 1
    /\ Cardinality(CallsOf("sleep")) = Len(analyses)
    /\ clock = Len(analyses)

\* two sources, both failed, each followed by its delay, then synthesis
C16_Witness ==
    /\ SynthesisCalled
    /\ Len(analyses) = 2
    /\ ~HasCleanRecord(analyses)
    /\ clock = 2

\* the last extraction gave text, so the last prompt was built from it
TextExtracted == ~extracted.none /\ extracted.len > 0

\* C18: the text handed to the per-source model call is the extracted text
\* unchanged when it has at most 12,000 characters, and otherwise its
\* first 12,000 characters followed by the truncation marker; nothing
\* beyond character 12,000 reaches the model.
C18_KeepPrefixTruncation ==
    TextExtracted =>
        /\ prompt_content.from = 1
        /\ prompt_content.from + prompt_content.kept - 1 <= 12000
        /\ IF extracted.len <= 12000
           THEN /\ prompt_content.kept = extracted.len
                /\ ~prompt_content.marker
           ELSE /\ prompt_content.kept = 12000
                /\ prompt_content.marker

\* a text of more than 12,000 characters was cut
C18_Witness ==
    /\ TextExtracted
    /\ extracted.len > 12000
    /\ prompt_content.marker
    /\ CallsOf("model") # {}

\* upper-case letters and their lower-case forms
LowerOf ==
    [A |-> "a", D |-> "d", E |-> "e", U |-> "u", G |-> "g", O |-> "o",
     V |-> "v"]

Lower(s) ==
    [i \in 1..Len(s) |-> IF s[i] \in DOMAIN LowerOf THEN LowerOf[s[i]]
                         ELSE s[i]]

\* the host of a URL: its netloc without the port, in lower case
HostOf(url) ==
    LET n == netloc(url)
        ports == {i \in 1..Len(n) : n[i] = ":"}
    IN  Lower(IF ports = {} THEN n ELSE SubSeq(n, 1, Min(ports) - 1))

\* C19: filter_urls takes a candidate for trusted if and only if its host,
\* in lower case, equals or ends with an entry of the trust policy; port,
\* path and letter case of the URL play no part.
C19_TrustByHost ==
    \A i \in 1..Len(search_results) :
        TrustedUrlData(search_results[i])
            <=> MatchesPolicy(HostOf(search_results[i].url))

\* C17: every outbound call is bounded by an explicit timeout, so a run of
\* research eventually reaches Done even when an external call hangs.
C17_EventuallyDone == <>(pc = "Done")

\* the records invocation i holds are those of its own filtered candidates,
\* in order, and so are those it returned
OwnRecordsOnly(i) ==
    /\ Len(analyses[i]) <= Len(filtered_urls[i])
    /\ \A j \in 1..Len(analyses[i]) :
          analyses[i][j].url = filtered_urls[i][j].url
    /\ (pc[i] = "Done" /\ Len(filtered_urls[i]) > 0) =>
          /\ result[i].query = query[i]
          /\ result[i].sources_analyzed = Len(filtered_urls[i])
          /\ Len(result[i].webpage_analyses) = Len(filtered_urls[i])
          /\ \A j \in 1..Len(filtered_urls[i]) :
                result[i].webpage_analyses[j].url = filtered_urls[i][j].url

\* C20: invocations of research on the same tool do not interfere: no step
\* of research changes the tool's max_urls, and under any interleaving each
\* invocation accumulates and returns records of its own filtered
\* candidates only.
C20_NoInterference ==
    [][ /\ max_urls' = max_urls
        /\ \A i \in Invocations : OwnRecordsOnly(i)' ]_vars

\* both invocations are in the middle of their loops, over different
\* candidates
C20_Witness ==
    /\ pc[1] = "Analyzing"
    /\ pc[2] = "Analyzing"
    /\ Len(analyses[1]) = 1
    /\ Len(analyses[2]) = 1
    /\ filtered_urls[1][1].url # filtered_urls[2][1].url

\* a search answered with status 200 and a JSON object whose results, if
\* any, all have a "url"; every other answer is a failed search
SearchSucceeded(response) ==
    /\ ~response.raised
    /\ response.status_code = 200
    /\ response.body.kind = "object"
    /\ "results" \in DOMAIN response.body.obj =>
          \A k \in 1..Len(response.body.obj.results) :
              "url" \in DOMAIN response.body.obj.results[k]

\* the URLs a search returned, in search order
SearchUrls(response) ==
    IF SearchSucceeded(response) /\ "results" \in DOMAIN response.body.obj
    THEN [k \in 1..Len(response.body.obj.results) |->
             response.body.obj.results[k].url]
    ELSE <<>>

\* entries is one {url, content} entry for each of the first limit URLs of
\* the search, in search order
EntriesOf(entries, response, limit) ==
    LET urls == SearchUrls(response)
    IN  /\ Len(entries) <= limit
        /\ Len(entries) = Min({limit, Len(urls)})
        /\ \A j \in 1..Len(entries) :
              /\ Keys(entries[j]) = {"url", "content"}
              /\ entries[j].url = urls[j]
        /\ ~SearchSucceeded(response) => entries = <<>>

JsonKeys(s) == {s.json[k][1] : k \in 1..Len(s.json)}
JsonValue(s, key) ==
    LET k == CHOOSE k \in 1..Len(s.json) : s.json[k][1] = key
    IN  s.json[k][2]

ToolReturnedRecord ==
    pc = "Returned" =>
        /\ output.type = "str"
        /\ Len(output.json) = 2
        /\ JsonKeys(output) = {"google_results", "original_results"}
        /\ EntriesOf(JsonValue(output, "original_results"), resp_original, 3)
        /\ EntriesOf(JsonValue(output, "google_results"), resp_google, 5)

FetchFailed(response) == response.raised \/ response.status_code # 200

\* a fetch adds one entry to its list, with content "" when the fetch
\* failed, and leaves every other entry as it was
FetchAddsOneEntry(before, after, others_before, others_after) ==
    /\ Len(after) = Len(before) + 1
    /\ SubSeq(after, 1, Len(before)) = before
    /\ others_after = others_before
    /\ FetchFailed(r_page') => after[Len(after)].content = <<>>

\* C21: web_search_tool never raises on a search or fetch failure; what it
\* returns is the JSON text of a record with exactly the keys google_results
\* and original_results, holding at most 5 and at most 3 entries, one
\* {url, content} entry per URL of the corresponding search in search
\* order; a failed or non-200 search gives an empty list for its key, and a
\* failed or non-200 page fetch gives content "" for its URL and changes no
\* other entry.
C21_ToolRecord ==
    [][ /\ pc' # "Raised"
        /\ ToolReturnedRecord'
        /\ pc = "FetchingOriginal" =>
              FetchAddsOneEntry(original_results, original_results',
                                google_results, google_results')
        /\ pc = "FetchingGoogle" =>
              FetchAddsOneEntry(google_results, google_results',
                                original_results, original_results') ]_vars

\* the first search failed, the second returned more than five URLs, and
\* of the five pages fetched one failed, one gave text and the last one
\* timed out
C21_Witness ==
    /\ pc = "Returned"
    /\ resp_original.raised
    /\ JsonValue(output, "original_results") = <<>>
    /\ Len(SearchUrls(resp_google)) > 5
    /\ Len(JsonValue(output, "google_results")) = 5
    /\ google_results[2].content = <<>>
    /\ google_results[3].content # <<>>
    /\ r_page.raised

RunKeys == {"query", "timestamp", "sources_analyzed", "webpage_analyses"}

\* the run passed Filtering with at least one trusted candidate
PassedFiltering == FilterDone /\ Len(filtered_urls) > 0

\* C22: every result research returns has exactly one of the keys synthesis
\* and error; it carries query, timestamp, sources_analyzed and
\* webpage_analyses if and only if the run passed Filtering with at least
\* one trusted candidate, and an early-exit result has the error key only.
C22_ResultShape ==
    pc = "Done" =>
        /\ ("synthesis" \in Keys(result)) # ("error" \in Keys(result))
        /\ (RunKeys \subseteq Keys(result)) <=> PassedFiltering
        /\ ~PassedFiltering => Keys(result) = {"error"}
        /\ PassedFiltering =>
              \/ Keys(result) = RunKeys \cup {"synthesis"}
              \/ Keys(result) = RunKeys \cup {"error"}

\* a run that passed Filtering, kept an error record of one source and
\* still returned a synthesis
C22_Witness ==
    /\ pc = "Done"
    /\ PassedFiltering
    /\ "synthesis" \in Keys(result)
    /\ HasErrorRecord(result.webpage_analyses)

====
